---------------------------- MODULE Spec2Model ----------------------------
(***************************************************************************)
(* A model of the job-application mailer: bulk_email.py (spreadsheet       *)
(* contact extraction and the bulk send loop), send_email.py (scrape, LLM  *)
(* extraction, confirmation, single send) and unravel.py (profile scraper  *)
(* and founder-info extractor).                                            *)
(*                                                                         *)
(* Strings are sequences of one-character strings, so that strip(),        *)
(* lower() and the two regular expressions of extract_email are computed   *)
(* character by character.  Python's None is the value None below.         *)
(***************************************************************************)
EXTENDS Integers, Sequences, FiniteSets, TLC

(***************************************************************************)
(* Bounds of the model.                                                    *)
(***************************************************************************)
\* cells scanned after the company column of a scan-and-pair row
MaxScanCells == 3
\* (name, phone, email) groups of a repeating-triplet row
MaxGroups == 2
\* rows read from one sheet by an extraction strategy
MaxRows == 2
\* rows of the spreadsheet handed to the bulk script
MaxSheetRows == 3

(***************************************************************************)
(* Characters and strings.                                                 *)
(***************************************************************************)
None == <<"None">>

LowerLetters == {"a", "b", "c", "e", "i", "j", "l", "m", "n", "o", "s", "t", "y"}
UpperLetters == {"A", "B", "C", "E", "J", "O", "S", "Y"}
Digits == {"1", "2", "3", "5"}
Whitespace == {" "}

\* \w of Python's re module, on the characters used here
WordChars == LowerLetters \cup UpperLetters \cup Digits \cup {"_"}
\* [\w.+-]
LocalChars == WordChars \cup {".", "+", "-"}
\* [\w.-]
DomainChars == WordChars \cup {".", "-"}
\* what [^\s",] excludes
MailtoStop == Whitespace \cup {"\"", ","}
AllChars == WordChars \cup Whitespace \cup
            {".", "+", "-", "@", "/", ":", "\"", ",", "=", "(", ")"}

LowerOf == [A |-> "a", B |-> "b", C |-> "c", E |-> "e", J |-> "j", O |-> "o",
            S |-> "s", Y |-> "y"]

\* str.lower()
Lower(s) == [k \in 1..Len(s) |-> IF s[k] \in DOMAIN LowerOf THEN LowerOf[s[k]] ELSE s[k]]

SetMax(S) == CHOOSE x \in S : \A y \in S : y <= x
SetMin(S) == CHOOSE x \in S : \A y \in S : x <= y

\* str.strip()
Strip(s) ==
    LET keep == {k \in 1..Len(s) : s[k] \notin Whitespace}
    IN  IF keep = {} THEN <<>> ELSE SubSeq(s, SetMin(keep), SetMax(keep))

\* Python truthiness of a cell value or of a string-or-None result
Truthy(v) == v /= None /\ v /= <<>>

\* the last position e >= p - 1 with s[p..e] all in Class (p - 1: an empty run)
RunEnd(s, p, Class) ==
    LET out == {q \in p..Len(s) : s[q] \notin Class}
    IN  IF out = {} THEN Len(s) ELSE SetMin(out) - 1

MAILTO == <<"m", "a", "i", "l", "t", "o", ":">>

\* re.search(r'mailto:([^\s",]+)', raw): the positions where the pattern matches
MailtoStarts(raw) ==
    {p \in 1..Len(raw) :
        /\ p + Len(MAILTO) <= Len(raw)
        /\ SubSeq(raw, p, p + Len(MAILTO) - 1) = MAILTO
        /\ raw[p + Len(MAILTO)] \notin MailtoStop}

\* group(1) of the match at p: the greedy run of [^\s",] after "mailto:"
MailtoGroup(raw, p) ==
    LET g == p + Len(MAILTO)
    IN  SubSeq(raw, g, RunEnd(raw, g, AllChars \ MailtoStop))

\* [\w.-]+\.\w+ matched from position d: the greedy [\w.-]+ gives back characters
\* until a "." followed by a word character is found; 0 when there is no match,
\* otherwise the last position of the match
DomainMatchEnd(raw, d) ==
    LET r    == RunEnd(raw, d, DomainChars)
        dots == {j \in (d + 1)..(r - 1) : raw[j] = "." /\ raw[j + 1] \in WordChars}
    IN  IF dots = {} THEN 0 ELSE RunEnd(raw, SetMax(dots) + 1, WordChars)

\* [\w.+-]+@[\w.-]+\.\w+ matched from position i: 0, or the last position of the match
PlainMatchEnd(raw, i) ==
    LET k == RunEnd(raw, i, LocalChars) + 1
    IN  IF k > i /\ k <= Len(raw) /\ raw[k] = "@" THEN DomainMatchEnd(raw, k + 1) ELSE 0

\* re.search(r'[\w.+-]+@[\w.-]+\.\w+', raw): the start positions that match
PlainStarts(raw) == {i \in 1..Len(raw) : PlainMatchEnd(raw, i) /= 0}

\* group(0) of the match at i
PlainGroup(raw, i) == SubSeq(raw, i, PlainMatchEnd(raw, i))

\* re.search returns the leftmost match
extract_email(raw0) ==
    IF ~Truthy(raw0) THEN None
    ELSE LET raw    == Strip(raw0)
             mailto == MailtoStarts(raw)
             plain  == PlainStarts(raw)
         IN  IF mailto /= {} THEN Lower(Strip(MailtoGroup(raw, SetMin(mailto))))
             ELSE IF plain /= {} THEN Lower(Strip(PlainGroup(raw, SetMin(plain))))
             ELSE None

(***************************************************************************)
(* Contact extraction (bulk_email.py).  A row is the list "values" of its  *)
(* cells' values; At(values, i) is Python's values[i].  A cell holds a     *)
(* string or None.                                                         *)
(***************************************************************************)
At(values, i) == values[i + 1]

YOUR_COMPANY == <<"y", "o", "u", "r", " ", "c", "o", "m", "p", "a", "n", "y">>
HIRING_MANAGER == <<"H", "i", "r", "i", "n", "g", " ", "M", "a", "n", "a", "g", "e", "r">>

Contact(company, name, email) == [company |-> company, name |-> name, email |-> email]

\* str(values[c]).strip() if values[c] else "your company"
CompanyOf(values, c) ==
    IF Truthy(At(values, c)) THEN Strip(At(values, c)) ELSE YOUR_COMPANY

\* one iteration of read_contacts' loop over the rows: what it appends
ReadContactsRow(values) ==
    LET company == CompanyOf(values, 0)
        name    == IF Truthy(At(values, 1)) THEN Strip(At(values, 1)) ELSE HIRING_MANAGER
        email   == IF Truthy(At(values, 4)) THEN extract_email(At(values, 4)) ELSE None
    IN  IF Truthy(email) THEN <<Contact(company, name, email)>> ELSE <<>>

\* "if name and email" of read_contacts_sheet4
Sheet4Keep_EmailOnly(name, email) == Truthy(email)

Sheet4Keep(name, email) == Truthy(name) /\ Truthy(email)

\* the while loop of read_contacts_sheet4 from index i on: what it appends
RECURSIVE Sheet4Loop(_, _, _)
Sheet4Loop(values, company, i) ==
    IF i + 2 < Len(values)
    THEN LET name  == IF Truthy(At(values, i)) THEN Strip(At(values, i)) ELSE None
             email == IF Truthy(At(values, i + 2))
                      THEN extract_email(At(values, i + 2)) ELSE None
             here  == IF Sheet4Keep(name, email)
                      THEN <<Contact(company, name, email)>> ELSE <<>>
         IN  here \o Sheet4Loop(values, company, i + 3)
    ELSE <<>>

\* one iteration of read_contacts_sheet4's loop over the rows
ReadContactsSheet4Row(values) == Sheet4Loop(values, CompanyOf(values, 0), 1)

\* val_str.isdigit()
IsDigitStr(s) == s /= <<>> /\ \A k \in 1..Len(s) : s[k] \in Digits

Contains(s, c) == \E k \in 1..Len(s) : s[k] = c

\* the elif condition of read_contacts_sheet2: a likely name or designation
IsCandidateName(val_str) ==
    /\ ~IsDigitStr(val_str)
    /\ ~Contains(val_str, "/")
    /\ Len(val_str) > 2
    /\ ~Contains(val_str, "@")

\* "if last_name is None: last_name = val_str"
KeepName_Latest(last_name, val_str) == val_str

KeepName(last_name, val_str) == IF last_name = None THEN val_str ELSE last_name

\* "last_name = None  # Reset after pairing"
AfterPairing(last_name) == None

\* "last_name = None" at the start of each row; prev is what the variable
\* held when the previous row's scan ended
RowStartName(prev) == None

\* the scan "for val in values[2:]" from index k on, with last_name as it stands:
\* the contacts it appends and the final last_name
RECURSIVE Sheet2Scan(_, _, _, _)
Sheet2Scan(values, company, k, last_name) ==
    IF k >= Len(values) THEN [contacts |-> <<>>, last_name |-> last_name]
    ELSE LET val == At(values, k)
         IN  IF val = None THEN Sheet2Scan(values, company, k + 1, last_name)
             ELSE LET val_str == Strip(val)
                      email   == extract_email(val_str)
                  IN  IF Truthy(email)
                      THEN LET rest == Sheet2Scan(values, company, k + 1,
                                                  AfterPairing(last_name))
                               name == IF Truthy(last_name) THEN last_name
                                       ELSE HIRING_MANAGER
                           IN  [rest EXCEPT !.contacts =
                                    <<Contact(company, name, email)>> \o @]
                      ELSE IF IsCandidateName(val_str)
                      THEN Sheet2Scan(values, company, k + 1,
                                      KeepName(last_name, val_str))
                      ELSE Sheet2Scan(values, company, k + 1, last_name)

\* one iteration of read_contacts_sheet2's loop over the rows
ReadContactsSheet2Row(values, prev) ==
    Sheet2Scan(values, CompanyOf(values, 1), 2, RowStartName(prev))

\* read_contacts_sheet2 over the rows from r on (the header row is not in "rows")
RECURSIVE Sheet2Rows(_, _, _)
Sheet2Rows(rows, r, prev) ==
    IF r > Len(rows) THEN <<>>
    ELSE LET got == ReadContactsSheet2Row(rows[r], prev)
         IN  got.contacts \o Sheet2Rows(rows, r + 1, got.last_name)

read_contacts_sheet2(rows) == Sheet2Rows(rows, 1, None)

(***************************************************************************)
(* Sample cell values and the rows built from them.                        *)
(***************************************************************************)
ACME       == <<" ", "A", "c", "m", "e">>
NAME1      == <<"J", "o", " ", "S">>
NAME2      == <<"C", "E", "O">>
SHORT      == <<"A", "l">>
BLANK      == <<" ", " ">>
PHONE      == <<"5", "5", "5">>
DATE       == <<"1", "/", "2", "/", "3">>
AT_ONLY    == <<"a", "@", "b">>
EMAIL_UP   == <<"J", "o", "@", "B", ".", "c", "o">>
EMAIL2     == <<"a", "l", "@", "b", ".", "i", "o">>
\* the tail of =HYPERLINK("mailto:al@b.io","al@b.io")
HYPER      == <<"(", "\"">> \o MAILTO \o EMAIL2 \o <<"\"", ",", "\"">> \o EMAIL2
                 \o <<"\"", ")">>
\* a mail link whose target is not an address: mailto:n/a
MAILTO_BAD == MAILTO \o <<"n", "/", "a">>
SLNO       == <<"1">>

CompanyCells == {None, ACME}
NameCells    == {None, NAME1, SHORT, BLANK}
EmailCells   == {None, NAME1, EMAIL_UP, HYPER, MAILTO_BAD}
GroupEmails  == {None, EMAIL_UP, HYPER, MAILTO_BAD}
ScanCells    == {None, NAME1, NAME2, SHORT, PHONE, DATE, AT_ONLY, EMAIL_UP, EMAIL2,
                 MAILTO_BAD}

SeqsUpTo(S, n) == UNION {[1..m -> S] : m \in 0..n}

\* Company, Name, Designation, Phone, Email
Rows1 == {<<c, n, NAME2, PHONE, e>> : c \in CompanyCells, n \in NameCells, e \in EmailCells}

Groups == {<<n, PHONE, e>> : n \in NameCells, e \in GroupEmails}
Partial == {<<>>, <<NAME1>>, <<NAME1, EMAIL_UP>>}

RECURSIVE Flatten(_)
Flatten(ss) == IF ss = <<>> THEN <<>> ELSE Head(ss) \o Flatten(Tail(ss))

\* Company, then (Name, Phone, Email) groups, then possibly an incomplete group
Rows4 == {<<c>> \o Flatten(gs) \o t :
            c \in CompanyCells, gs \in SeqsUpTo(Groups, MaxGroups), t \in Partial}

\* Sl.No, Client Name, then the scanned cells
Rows2 == {<<SLNO, c>> \o cells : c \in CompanyCells, cells \in SeqsUpTo(ScanCells, MaxScanCells)}

\* The rows a sheet may hold before its last row: a sheet is up to MaxRows rows,
\* all but the last drawn from these
LeadRows == {<<ACME, NAME1, NAME2, PHONE, EMAIL_UP>>,
             <<ACME, NAME1, PHONE, EMAIL_UP>>,
             <<SLNO, ACME, NAME1>>,
             <<SLNO, ACME, NAME2, EMAIL2>>}

\* The data rows of the worksheet the bulk script reads: one that yields a
\* contact, one that yields none
BulkRows == {<<SLNO, ACME, NAME1, EMAIL_UP>>, <<SLNO, None, PHONE, DATE>>}
Sheets == SeqsUpTo(BulkRows, MaxSheetRows)

\* what the operator may type at a y/n prompt
AnswerInputs == {<<"y">>, <<"Y", " ">>, <<"n">>, <<>>, <<"y", "e", "s">>}

(***************************************************************************)
(* State.                                                                  *)
(***************************************************************************)
VARIABLES
    \* the extraction strategies, row by row
    strategy,       \* the strategy reading the sheet
    values,         \* the row read last
    appended,       \* what that row's iteration appended to contacts
    last_name,      \* read_contacts_sheet2's last_name when the row's scan ended
    rowsRead,       \* rows read so far
    \* the environment of a run
    script,         \* which script runs
    test_mode,      \* "--test" in sys.argv
    use_sheet4,     \* "--sheet4" in sys.argv
    app_password_set, \* the script's SMTP app password variable is set
    groq_key_set,   \* GROQ_API_KEY is set
    resume_exists,  \* RESUME_PATH.exists()
    excel_exists,   \* EXCEL_PATH.exists()
    sheet,          \* the data rows of the worksheet the bulk script reads
    \* the run
    pc,             \* where the run is
    exit_code,      \* the process's exit code once pc = "exited"
    exit_reason,    \* why it exited
    answered,       \* the operator has answered the y/n prompt
    confirm,        \* the answer, stripped and lower-cased
    net,            \* the network calls made so far, in order
    \* bulk_email.main
    extractor,      \* the extraction strategy main called
    contacts,
    i,              \* the send loop's index
    sent,
    failed,
    delays,         \* time.sleep(DELAY_BETWEEN_EMAILS) calls so far
    attempts,       \* the send_cold_email calls so far: contact index and outcome
    session_error,  \* an SMTP authentication or connection failure has occurred
    \* send_email.main
    fetches,        \* the requests.get calls so far: URL and outcome
    all_text,       \* scrape_unravel_profiles' all_text
    profiles,       \* the text scrape_unravel_profiles returned
    result          \* extract_founder_info's result

extractVars == <<strategy, values, appended, last_name, rowsRead>>
envVars == <<script, test_mode, use_sheet4, app_password_set, groq_key_set,
             resume_exists, excel_exists, sheet>>
exitVars == <<pc, exit_code, exit_reason>>
promptVars == <<answered, confirm>>
bulkVars == <<extractor, contacts, i, sent, failed, delays, attempts, session_error>>
sendVars == <<fetches, all_text, profiles, result>>
vars == <<extractVars, envVars, exitVars, promptVars, net, bulkVars, sendVars>>

Strategies == {"read_contacts", "read_contacts_sheet4", "read_contacts_sheet2"}

\* extract_founder_info has not returned
Unset == [unset |-> TRUE]

\* sys.exit(code) after printing the error named by reason; an uncaught
\* exception ends the process with code 1, a return from main with code 0
Exit(code, reason) ==
    /\ pc' = "exited"
    /\ exit_code' = code
    /\ exit_reason' = reason

\* the values no run has touched yet
Idle ==
    /\ answered = FALSE
    /\ confirm = <<>>
    /\ net = <<>>
    /\ extractor = "none"
    /\ contacts = <<>>
    /\ i = 0
    /\ sent = 0
    /\ failed = 0
    /\ delays = 0
    /\ attempts = <<>>
    /\ session_error = FALSE
    /\ fetches = <<>>
    /\ all_text = <<>>
    /\ profiles = <<>>
    /\ result = Unset
    /\ exit_code = 0
    /\ exit_reason = "running"

(***************************************************************************)
(* Specification of the extraction strategies: a strategy opens the        *)
(* workbook and reads up to MaxRows rows.                                  *)
(***************************************************************************)
InitExtract ==
    /\ strategy \in Strategies
    /\ values = <<>>
    /\ appended = <<>>
    /\ last_name = None
    /\ rowsRead = 0
    /\ script = "extractor"
    /\ test_mode = FALSE
    /\ use_sheet4 = FALSE
    /\ app_password_set = TRUE
    /\ groq_key_set = TRUE
    /\ resume_exists = TRUE
    /\ excel_exists \in BOOLEAN
    /\ sheet = <<>>
    /\ pc = "open_workbook"
    /\ Idle

\* the EXCEL_PATH.exists() check and load_workbook of each strategy
OpenWorkbook ==
    /\ pc = "open_workbook"
    /\ IF excel_exists
       THEN pc' = "rows" /\ UNCHANGED <<exit_code, exit_reason>>
       ELSE Exit(1, "excel_missing")
    /\ UNCHANGED <<extractVars, envVars, promptVars, net, bulkVars, sendVars>>

\* the sheet has a further row
MoreRows == rowsRead < MaxRows /\ (rowsRead = 0 \/ values \in LeadRows)

ReadRowFixed ==
    /\ pc = "rows" /\ strategy = "read_contacts" /\ MoreRows
    /\ \E row \in Rows1 :
        /\ values' = row
        /\ appended' = ReadContactsRow(row)
    /\ rowsRead' = rowsRead + 1
    /\ UNCHANGED <<strategy, last_name, envVars, exitVars, promptVars, net, bulkVars,
                   sendVars>>

ReadRowTriplet ==
    /\ pc = "rows" /\ strategy = "read_contacts_sheet4" /\ MoreRows
    /\ \E row \in Rows4 :
        /\ values' = row
        /\ appended' = ReadContactsSheet4Row(row)
    /\ rowsRead' = rowsRead + 1
    /\ UNCHANGED <<strategy, last_name, envVars, exitVars, promptVars, net, bulkVars,
                   sendVars>>

ReadRowScan ==
    /\ pc = "rows" /\ strategy = "read_contacts_sheet2" /\ MoreRows
    /\ \E row \in Rows2 :
        LET got == ReadContactsSheet2Row(row, last_name)
        IN  /\ values' = row
            /\ appended' = got.contacts
            /\ last_name' = got.last_name
    /\ rowsRead' = rowsRead + 1
    /\ UNCHANGED <<strategy, envVars, exitVars, promptVars, net, bulkVars, sendVars>>

NextExtract == OpenWorkbook \/ ReadRowFixed \/ ReadRowTriplet \/ ReadRowScan

SpecExtract == InitExtract /\ [][NextExtract]_vars

(***************************************************************************)
(* bulk_email.py: send_cold_email and main.                                *)
(***************************************************************************)
\* How one send_cold_email call may go: the message is sent; building it raises
\* (no SMTP traffic); send_message raises because the server refuses it; or
\* send_message raises because the connection is gone (a session-level error)
SendOutcomes == {"sent", "build_error", "refused", "disconnected"}

\* how smtplib.SMTP(...), starttls() and login() may go
SetupOutcomes == {"ok", "auth_error", "connect_error"}

\* On a lost connection send_message raises SMTPServerDisconnected at once
OutcomesNow == IF session_error THEN {"build_error", "disconnected"} ELSE SendOutcomes

\* send_cold_email's result: "True", "False", or "raise" when an exception leaves it
send_cold_email_Unguarded(outcome) == IF outcome = "sent" THEN "True" ELSE "raise"

send_cold_email(outcome) == IF outcome = "sent" THEN "True" ELSE "False"

\* the network calls of one send_cold_email call
SendTraffic(outcome) == IF outcome = "build_error" THEN <<>> ELSE <<"smtp_send">>

\* confirm = input(...).strip().lower()
Normalize(input) == Lower(Strip(input))

YES == <<"y">>

\* "if confirm != 'y'": the run is cancelled
Cancelled_OnlyOnN(c) == c = <<"n">>

Cancelled(c) == c /= YES

\* the strategy main's full mode calls, given use_sheet4
SelectExtractor(flag) == "read_contacts_sheet2"

\* test_mode / use_sheet4 and the "# Validate" block
BulkValidate ==
    /\ script = "bulk_email" /\ pc = "validate"
    /\ IF ~app_password_set THEN Exit(1, "password_missing")
       ELSE IF ~resume_exists THEN Exit(1, "resume_missing")
       ELSE /\ pc' = IF test_mode THEN "test_confirm" ELSE "read_contacts"
            /\ UNCHANGED <<exit_code, exit_reason>>
    /\ UNCHANGED <<extractVars, envVars, promptVars, net, bulkVars, sendVars>>

\* test mode: the prompt
BulkTestConfirm ==
    /\ script = "bulk_email" /\ pc = "test_confirm"
    /\ \E input \in AnswerInputs :
        /\ answered' = TRUE
        /\ confirm' = Normalize(input)
        /\ IF Cancelled(Normalize(input)) THEN Exit(0, "cancelled")
           ELSE pc' = "test_send" /\ UNCHANGED <<exit_code, exit_reason>>
    /\ UNCHANGED <<extractVars, envVars, net, bulkVars, sendVars>>

\* test mode: the session and the one send
BulkTestSend ==
    /\ script = "bulk_email" /\ pc = "test_send"
    /\ \E setup \in SetupOutcomes :
        IF setup /= "ok"
        THEN /\ net' = net \o <<"smtp_connect">>
             /\ session_error' = TRUE
             /\ Exit(1, "uncaught_exception")
             /\ UNCHANGED attempts
        ELSE \E outcome \in SendOutcomes :
             /\ net' = net \o <<"smtp_connect">> \o SendTraffic(outcome)
             /\ attempts' = attempts \o
                    <<[index |-> 1, outcome |-> outcome, slept |-> FALSE]>>
             /\ session_error' = (outcome = "disconnected")
             /\ IF send_cold_email(outcome) = "raise"
                THEN Exit(1, "uncaught_exception")
                ELSE Exit(0, "done")
    /\ UNCHANGED <<extractVars, envVars, promptVars, extractor, contacts, i, sent,
                   failed, delays, sendVars>>

\* full mode: read the contacts and preview them
BulkReadContacts ==
    /\ script = "bulk_email" /\ pc = "read_contacts"
    /\ extractor' = SelectExtractor(use_sheet4)
    /\ IF ~excel_exists
       THEN Exit(1, "excel_missing") /\ UNCHANGED contacts
       ELSE /\ contacts' = read_contacts_sheet2(sheet)
            /\ pc' = "confirm"
            /\ UNCHANGED <<exit_code, exit_reason>>
    /\ UNCHANGED <<extractVars, envVars, promptVars, net, i, sent, failed, delays,
                   attempts, session_error, sendVars>>

\* full mode: the prompt
BulkConfirm ==
    /\ script = "bulk_email" /\ pc = "confirm"
    /\ \E input \in AnswerInputs :
        /\ answered' = TRUE
        /\ confirm' = Normalize(input)
        /\ IF Cancelled(Normalize(input)) THEN Exit(0, "cancelled")
           ELSE pc' = "connect" /\ UNCHANGED <<exit_code, exit_reason>>
    /\ UNCHANGED <<extractVars, envVars, net, bulkVars, sendVars>>

\* full mode: sent = failed = 0 and the session setup
BulkConnect ==
    /\ script = "bulk_email" /\ pc = "connect"
    /\ net' = net \o <<"smtp_connect">>
    /\ sent' = 0
    /\ failed' = 0
    /\ \E setup \in SetupOutcomes :
        IF setup /= "ok"
        THEN /\ session_error' = TRUE
             /\ Exit(1, "uncaught_exception")
             /\ UNCHANGED i
        ELSE /\ pc' = "send_loop"
             /\ i' = 1
             /\ UNCHANGED <<session_error, exit_code, exit_reason>>
    /\ UNCHANGED <<extractVars, envVars, promptVars, extractor, contacts, delays,
                   attempts, sendVars>>

\* "if i < len(contacts): time.sleep(DELAY_BETWEEN_EMAILS)", n = len(contacts)
SleepsAfter_EveryAttempt(idx, n) == idx <= n

SleepsAfter(idx, n) == idx < n

\* one iteration of the send loop; slept records whether the iteration ended
\* with the delay
BulkSendStep ==
    /\ script = "bulk_email" /\ pc = "send_loop" /\ i <= Len(contacts)
    /\ \E outcome \in OutcomesNow :
        /\ net' = net \o SendTraffic(outcome)
        /\ attempts' = attempts \o
               <<[index |-> i, outcome |-> outcome,
                  slept |-> (send_cold_email(outcome) /= "raise"
                             /\ SleepsAfter(i, Len(contacts)))]>>
        /\ session_error' = (session_error \/ outcome = "disconnected")
        /\ LET r == send_cold_email(outcome)
           IN  CASE r = "True" ->
                      /\ sent' = sent + 1
                      /\ delays' = IF SleepsAfter(i, Len(contacts)) THEN delays + 1 ELSE delays
                      /\ i' = i + 1
                      /\ UNCHANGED <<failed, exitVars>>
                 [] r = "False" ->
                      /\ failed' = failed + 1
                      /\ delays' = IF SleepsAfter(i, Len(contacts)) THEN delays + 1 ELSE delays
                      /\ i' = i + 1
                      /\ UNCHANGED <<sent, exitVars>>
                 [] OTHER ->
                      /\ Exit(1, "uncaught_exception")
                      /\ UNCHANGED <<sent, failed, delays, i>>
    /\ UNCHANGED <<extractVars, envVars, promptVars, extractor, contacts, sendVars>>

\* the loop is over: the session closes and the summary is printed
BulkFinish ==
    /\ script = "bulk_email" /\ pc = "send_loop" /\ i > Len(contacts)
    /\ Exit(0, "done")
    /\ UNCHANGED <<extractVars, envVars, promptVars, net, bulkVars, sendVars>>

(***************************************************************************)
(* unravel.py: scrape_unravel_profiles and extract_founder_info.           *)
(* Text is a sequence of pieces here: a literal, a URL or a page's text.   *)
(***************************************************************************)
UNRAVEL_URLS == <<"https://unravel.tech", "https://unravel.tech/blog",
                  "https://unravel.tech/talks">>

\* the visible text a fetched page may have
PageTexts == {"", "team"}

FetchOutcomes == {"ok", "fail"}

\* f"--- Content from {url} ---\n{text}"
Block(url, text) == <<"--- Content from ", url, " ---\n", text>>

\* "\n\n".join(all_text)
RECURSIVE JoinBlocks(_)
JoinBlocks(blocks) ==
    IF blocks = <<>> THEN <<>>
    ELSE IF Len(blocks) = 1 THEN blocks[1]
    ELSE blocks[1] \o <<"\n\n">> \o JoinBlocks(Tail(blocks))

\* the "for url in UNRAVEL_URLS" loop is over after the URL at index idx;
\* a failed fetch is caught inside the loop
LoopOver_BreakOnFailure(idx, outcome) == idx = Len(UNRAVEL_URLS) \/ outcome = "fail"

LoopOver(idx, outcome) == idx = Len(UNRAVEL_URLS)

\* one iteration of scrape_unravel_profiles' loop and, after the last, its end
FetchUrl ==
    /\ script = "send_email" /\ pc = "scrape"
    /\ \E outcome \in FetchOutcomes, text \in PageTexts :
        LET idx  == Len(fetches) + 1
            url  == UNRAVEL_URLS[idx]
            got  == IF outcome = "ok" THEN all_text \o <<Block(url, text)>> ELSE all_text
        IN  /\ outcome = "fail" => text = ""
            /\ net' = net \o <<"http_get">>
            /\ fetches' = fetches \o <<[url |-> url, outcome |-> outcome, text |-> text]>>
            /\ all_text' = got
            /\ IF ~LoopOver(idx, outcome)
               THEN UNCHANGED <<exitVars, profiles>>
               ELSE IF got = <<>>
               THEN Exit(1, "no_content") /\ UNCHANGED profiles
               ELSE /\ profiles' = JoinBlocks(got)
                    /\ pc' = "extract"
                    /\ UNCHANGED <<exit_code, exit_reason>>
    /\ UNCHANGED <<extractVars, envVars, promptVars, bulkVars, result>>

\* dict.get: None for a missing key
Get(d, k) == IF k \in DOMAIN d THEN d[k] ELSE None

FOUNDER == <<"P", "r">>
FieldValues == {None, <<>>, FOUNDER}
FounderKeys == {"founder_name", "email"}
\* the JSON objects the model may return
FounderDicts == UNION {[K -> FieldValues] : K \in SUBSET FounderKeys}

\* how the chat completion may go: the request raises, the content is empty,
\* the content is not JSON, or it is a JSON object
LLMOutcomes == {"api_error", "empty", "malformed", "object"}

(***************************************************************************)
(* send_email.py: main and send_application_email.                         *)
(***************************************************************************)
\* "if not founder_name or not recipient"
CouldNotExtract_BothAbsent(d) ==
    ~Truthy(Get(d, "founder_name")) /\ ~Truthy(Get(d, "email"))

CouldNotExtract(d) == ~Truthy(Get(d, "founder_name")) \/ ~Truthy(Get(d, "email"))

\* step 2 of main: extract_founder_info and the check of its result
SendExtract ==
    /\ script = "send_email" /\ pc = "extract"
    /\ IF ~groq_key_set
       THEN Exit(1, "api_key_missing") /\ UNCHANGED <<net, result>>
       ELSE /\ net' = net \o <<"llm_request">>
            /\ \E llm \in LLMOutcomes :
                 CASE llm = "api_error" -> Exit(1, "llm_api_error") /\ UNCHANGED result
                   [] llm = "empty"     -> Exit(1, "llm_empty") /\ UNCHANGED result
                   [] llm = "malformed" -> Exit(1, "llm_bad_json") /\ UNCHANGED result
                   [] OTHER ->
                        \E d \in FounderDicts :
                          /\ result' = d
                          /\ IF CouldNotExtract(d) THEN Exit(1, "no_founder")
                             ELSE pc' = "confirm" /\ UNCHANGED <<exit_code, exit_reason>>
    /\ UNCHANGED <<extractVars, envVars, promptVars, bulkVars, fetches, all_text, profiles>>

\* the prompt
SendConfirm ==
    /\ script = "send_email" /\ pc = "confirm"
    /\ \E input \in AnswerInputs :
        /\ answered' = TRUE
        /\ confirm' = Normalize(input)
        /\ IF Cancelled(Normalize(input)) THEN Exit(0, "cancelled")
           ELSE pc' = "send" /\ UNCHANGED <<exit_code, exit_reason>>
    /\ UNCHANGED <<extractVars, envVars, net, bulkVars, sendVars>>

\* how the SMTP session of send_application_email may go: the mail is sent;
\* SMTPAuthenticationError; another SMTPException; an OSError (not caught)
SessionOutcomes == {"ok", "auth_error", "smtp_error", "os_error"}

\* send_application_email and the end of main
SendApplicationEmail ==
    /\ script = "send_email" /\ pc = "send"
    /\ IF ~app_password_set THEN Exit(1, "password_missing") /\ UNCHANGED net
       ELSE IF ~resume_exists THEN Exit(1, "resume_missing") /\ UNCHANGED net
       ELSE \E o \in SessionOutcomes :
              CASE o = "ok" ->
                     /\ net' = net \o <<"smtp_connect", "smtp_send">>
                     /\ Exit(0, "done")
                [] o = "auth_error" ->
                     /\ net' = net \o <<"smtp_connect">>
                     /\ Exit(1, "auth_failed")
                [] o = "smtp_error" ->
                     /\ net' = net \o <<"smtp_connect">>
                     /\ Exit(1, "smtp_error")
                [] OTHER ->
                     /\ net' = net \o <<"smtp_connect">>
                     /\ Exit(1, "uncaught_exception")
    /\ UNCHANGED <<extractVars, envVars, promptVars, bulkVars, sendVars>>

(***************************************************************************)
(* Specification of the two scripts: one run of bulk_email.py or of        *)
(* send_email.py, in any environment.                                      *)
(***************************************************************************)
Init ==
    /\ strategy = "none"
    /\ values = <<>>
    /\ appended = <<>>
    /\ last_name = None
    /\ rowsRead = 0
    /\ script \in {"bulk_email", "send_email"}
    /\ app_password_set \in BOOLEAN
    /\ resume_exists \in BOOLEAN
    /\ IF script = "bulk_email"
       THEN /\ test_mode \in BOOLEAN
            /\ use_sheet4 \in BOOLEAN
            /\ excel_exists \in BOOLEAN
            /\ sheet \in Sheets
            /\ groq_key_set = TRUE
            /\ pc = "validate"
       ELSE /\ test_mode = FALSE
            /\ use_sheet4 = FALSE
            /\ excel_exists = TRUE
            /\ sheet = <<>>
            /\ groq_key_set \in BOOLEAN
            /\ pc = "scrape"
    /\ Idle

Next ==
    \/ BulkValidate
    \/ BulkTestConfirm
    \/ BulkTestSend
    \/ BulkReadContacts
    \/ BulkConfirm
    \/ BulkConnect
    \/ BulkSendStep
    \/ BulkFinish
    \/ FetchUrl
    \/ SendExtract
    \/ SendConfirm
    \/ SendApplicationEmail

Spec == Init /\ [][Next]_vars

(***************************************************************************)
(* Properties of the two scripts (checked under Spec).                     *)
(***************************************************************************)
HasSmtp(events) == \E k \in 1..Len(events) : events[k] \in {"smtp_connect", "smtp_send"}

CountOutcomes(a, S) == Cardinality({k \in 1..Len(a) : a[k].outcome \in S})

\* the send loop of full mode has been entered
InSendLoop == script = "bulk_email" /\ ~test_mode /\ i >= 1

\* C1: in the bulk send loop every contact is attempted exactly once in list
\* order, whatever sends fail; a failing send leaves the loop at the next
\* contact; sent and failed count the successful and the failing sends, and when
\* the run ends sent + failed is the number of contacts.
C1_EveryContactAttemptedOnce ==
    InSendLoop =>
        /\ \A k \in 1..Len(attempts) : attempts[k].index = k
        /\ Len(attempts) <= Len(contacts)
        /\ sent = CountOutcomes(attempts, {"sent"})
        /\ failed = CountOutcomes(attempts, SendOutcomes \ {"sent"})
        /\ sent + failed = Len(attempts)
        /\ pc = "send_loop" => i = Len(attempts) + 1
        /\ pc = "exited" =>
              /\ exit_reason = "done"
              /\ Len(attempts) = Len(contacts)
              /\ sent + failed = Len(contacts)

\* three contacts, the second send failing: sent = 2, failed = 1, third attempted
C1_Witness ==
    /\ InSendLoop /\ pc = "exited"
    /\ Len(contacts) = 3 /\ Len(attempts) = 3
    /\ attempts[1].outcome = "sent"
    /\ attempts[2].outcome = "refused"
    /\ attempts[3].outcome = "sent"
    /\ sent = 2 /\ failed = 1

\* C2 as amended: the y/n answer precedes every SMTP connection in both scripts,
\* and in bulk_email every network call; an answer other than 'y' ends the
\* process with exit code 0 without any SMTP connection (in send_email the page
\* fetches and the LLM request have been made before the prompt).
C2_ConfirmBeforeSmtp ==
    /\ HasSmtp(net) => answered /\ confirm = YES
    /\ (script = "bulk_email" /\ net /= <<>>) => answered /\ confirm = YES
    /\ (answered /\ confirm /= YES) =>
          /\ pc = "exited" /\ exit_code = 0
          /\ ~HasSmtp(net)
          /\ script = "bulk_email" => net = <<>>

\* the operator typed "Y " and a mail went out
C2_Witness ==
    /\ script = "send_email" /\ answered /\ confirm = YES
    /\ net = <<"http_get", "http_get", "http_get", "llm_request", "smtp_connect",
               "smtp_send">>

\* C2 as stated: no network call of any kind before the answer, and none at all
\* when the answer is not 'y'.
C2_ConfirmBeforeAnyNetwork ==
    /\ net /= <<>> => answered
    /\ (answered /\ confirm /= YES) => (net = <<>> /\ pc = "exited" /\ exit_code = 0)

PrerequisiteErrors == {"password_missing", "api_key_missing", "resume_missing",
                       "excel_missing"}

\* C3: a run that ends on a missing prerequisite ends with a nonzero exit code
\* and has made no network call.
C3_PrerequisiteExitBeforeNetwork ==
    (pc = "exited" /\ exit_reason \in PrerequisiteErrors) =>
        (exit_code /= 0 /\ net = <<>>)

\* C4: with --sheet4 among the arguments, full mode calls another extraction
\* strategy than it calls without it.
C4_Sheet4SelectsAnotherStrategy ==
    (script = "bulk_email" /\ pc = "confirm" /\ use_sheet4) =>
        extractor /= SelectExtractor(FALSE)

\* a Founder Result field is null, missing or empty
Absent(d, k) == k \notin DOMAIN d \/ d[k] = None \/ d[k] = <<>>

\* C8: in send_email.main, a Founder Result without founder_name or email ends
\* the run with a nonzero exit code before the prompt and before any SMTP
\* activity.
C8_NoFounderNoSend ==
    (script = "send_email" /\ result /= Unset
        /\ (Absent(result, "founder_name") \/ Absent(result, "email"))) =>
        /\ pc = "exited" /\ exit_code /= 0
        /\ ~answered
        /\ ~HasSmtp(net)

\* the name was extracted, the email is null
C8_Witness ==
    /\ script = "send_email" /\ pc = "exited"
    /\ result = [founder_name |-> FOUNDER, email |-> None]

IsOkFetch(f) == f.outcome = "ok"

\* C9: once the scrape is over every URL of the list has been fetched, in order,
\* failed or not; the returned text is the successfully fetched pages in list
\* order, each after its source URL, joined by blank lines; if none succeeded
\* the run has ended with exit code 1 and nothing was returned.
C9_ScrapeSkipsFailures ==
    (script = "send_email" /\ pc /= "scrape") =>
        LET ok == SelectSeq(fetches, IsOkFetch)
            n  == Len(ok)
        IN  /\ Len(fetches) = Len(UNRAVEL_URLS)
            /\ \A k \in 1..Len(fetches) : fetches[k].url = UNRAVEL_URLS[k]
            /\ IF n = 0
               THEN /\ pc = "exited" /\ exit_code = 1 /\ exit_reason = "no_content"
                    /\ profiles = <<>>
               ELSE /\ exit_reason /= "no_content"
                    /\ Len(profiles) = 5 * n - 1
                    /\ \A k \in 1..n :
                         /\ profiles[5 * k - 4] = "--- Content from "
                         /\ profiles[5 * k - 3] = ok[k].url
                         /\ profiles[5 * k - 1] = ok[k].text
                         /\ k < n => profiles[5 * k] = "\n\n"

\* the first fetch fails, the second succeeds, the third fails
C9_Witness ==
    /\ script = "send_email" /\ pc = "extract"
    /\ Len(fetches) = 3
    /\ fetches[1].outcome = "fail"
    /\ fetches[2].outcome = "ok"
    /\ fetches[3].outcome = "fail"
    /\ profiles = Block(UNRAVEL_URLS[2], "team")

\* C10: in full mode, once an SMTP authentication or connection failure has
\* occurred the run has ended with a nonzero exit code (so no further send is
\* attempted).
C10_SessionErrorAborts ==
    (script = "bulk_email" /\ ~test_mode /\ session_error) =>
        (pc = "exited" /\ exit_code /= 0)

\* C11: in the bulk send loop the delay is taken after every send attempt but
\* the last, whether the attempt succeeded or failed: attempt j ends with the
\* delay exactly when j < n, so a delay lies between any two attempts and
\* none follows the last; when the run ends n - 1 delays were taken for n >= 1
\* contacts, and with no contact there is neither a send nor a delay.
C11_DelayBetweenSends ==
    InSendLoop =>
        LET n == Len(contacts)
            k == Len(attempts)
        IN  /\ \A j \in 1..k : attempts[j].slept <=> j < n
            /\ delays = Cardinality({j \in 1..k : attempts[j].slept})
            /\ delays = IF k < n THEN k ELSE IF n = 0 THEN 0 ELSE n - 1
            /\ pc = "exited" =>
                  /\ k = n
                  /\ delays = IF n = 0 THEN 0 ELSE n - 1

\* three contacts, the second send failing: two delays, none after the third
C11_Witness ==
    /\ InSendLoop /\ pc = "exited"
    /\ Len(contacts) = 3 /\ Len(attempts) = 3
    /\ attempts[2].outcome = "build_error"
    /\ attempts[1].slept /\ attempts[2].slept /\ ~attempts[3].slept
    /\ delays = 2

(***************************************************************************)
(* Properties of the extraction strategies (checked under SpecExtract).    *)
(***************************************************************************)
\* local@domain.tld, lower-cased: one "@" after a non-empty local part, and a
\* domain whose last "." has something before it and only word characters,
\* at least one, after it
IsAddress(e) ==
    /\ e = Lower(e)
    /\ \E k \in 2..Len(e) :
        /\ e[k] = "@"
        /\ \A q \in 1..(k - 1) : e[q] \in LocalChars
        /\ \A q \in (k + 1)..Len(e) : e[q] \in DomainChars
        /\ \E j \in (k + 2)..(Len(e) - 1) :
            /\ e[j] = "."
            /\ \A q \in (j + 1)..Len(e) : e[q] \in WordChars

\* sub occurs in s
Occurs(sub, s) ==
    \E p \in 1..(Len(s) - Len(sub) + 1) : SubSeq(s, p, p + Len(sub) - 1) = sub

\* C5: whichever strategy read the row, every Contact it emitted carries a
\* lower-cased local@domain.tld address that occurs in a cell of that row.
C5_EmittedEmailsAreAddresses ==
    rowsRead >= 1 =>
        \A k \in 1..Len(appended) :
            /\ IsAddress(appended[k].email)
            /\ \E c \in 1..Len(values) :
                 values[c] /= None /\ Occurs(appended[k].email, Lower(values[c]))

\* the columns the scan-and-pair strategy scans (Python indices)
ScanCols(v) == 2..(Len(v) - 1)

\* what each scanned cell normalizes to: an email, or None
Normalized(v) ==
    [p \in ScanCols(v) |->
        IF At(v, p) = None THEN None ELSE extract_email(Strip(At(v, p)))]

\* the k-th of the columns cols
NthCol(cols, k) == CHOOSE p \in cols : Cardinality({q \in cols : q < p}) = k - 1

\* the name pending when the scan reaches column p, given the email columns and
\* the candidate-name columns: the first candidate name after the last email
\* cell before p (or after column 1), None if there is none
PendingAt(v, emails, names, p) ==
    LET before == {q \in emails : q < p}
        lo     == IF before = {} THEN 1 ELSE SetMax(before)
        cands  == {q \in names : lo < q /\ q < p}
    IN  IF cands = {} THEN None ELSE Strip(At(v, SetMin(cands)))

\* C6: a scan-and-pair row emits one Contact per email cell from column 2 on, in
\* order; its company is column 1 (stripped; the placeholder when the cell is
\* empty), its email the cell's normalization, its name the first candidate
\* name since the previous email cell of the same row, or 'Hiring Manager';
\* nothing of an earlier row enters, and what stays pending at the end of the
\* row is the first candidate name after its last email cell.
C6_ScanAndPair ==
    (strategy = "read_contacts_sheet2" /\ rowsRead >= 1) =>
        LET company == IF At(values, 1) = None THEN YOUR_COMPANY
                       ELSE Strip(At(values, 1))
            norm    == Normalized(values)
            emails  == {p \in ScanCols(values) : norm[p] /= None}
            names   == {p \in ScanCols(values) \ emails :
                          At(values, p) /= None /\ IsCandidateName(Strip(At(values, p)))}
        IN  /\ Len(appended) = Cardinality(emails)
            /\ \A k \in 1..Len(appended) :
                 LET p       == NthCol(emails, k)
                     pending == PendingAt(values, emails, names, p)
                 IN  /\ appended[k].company = company
                     /\ appended[k].email = norm[p]
                     /\ appended[k].name =
                            IF pending = None THEN HIRING_MANAGER ELSE pending
            /\ last_name = PendingAt(values, emails, names, Len(values))

\* a second row: two candidate names, then an email; the first name is kept
C6_Witness ==
    /\ strategy = "read_contacts_sheet2" /\ rowsRead = 2
    /\ values = <<SLNO, ACME, NAME1, NAME2, EMAIL_UP>>
    /\ Len(appended) = 1
    /\ appended[1].name = NAME1
    /\ last_name = None

\* the (name, phone, email) groups of a repeating-triplet row, numbered from 1:
\* group g is columns 3g - 2 .. 3g
GroupCount(v) == (Len(v) - 1) \div 3

GroupEmits(v, g) ==
    /\ Truthy(At(v, 3 * g - 2)) /\ Strip(At(v, 3 * g - 2)) /= <<>>
    /\ Truthy(At(v, 3 * g)) /\ extract_email(At(v, 3 * g)) /= None

\* the k-th group that emits
NthGroup(v, k) ==
    CHOOSE g \in 1..GroupCount(v) :
        /\ GroupEmits(v, g)
        /\ Cardinality({h \in 1..(g - 1) : GroupEmits(v, h)}) = k - 1

\* C7: a repeating-triplet row emits exactly one Contact per complete group that
\* has a non-empty name and a recognizable email, in group order, each with
\* the row's column-0 company or the placeholder; other groups and a trailing
\* incomplete group emit nothing.
C7_OneContactPerGroup ==
    (strategy = "read_contacts_sheet4" /\ rowsRead >= 1) =>
        LET company == IF Truthy(At(values, 0)) THEN Strip(At(values, 0))
                       ELSE YOUR_COMPANY
            n == Cardinality({g \in 1..GroupCount(values) : GroupEmits(values, g)})
        IN  /\ Len(appended) = n
            /\ \A k \in 1..n :
                 LET g == NthGroup(values, k)
                 IN  appended[k] = Contact(company, Strip(At(values, 3 * g - 2)),
                                           extract_email(At(values, 3 * g)))

\* two complete groups and an incomplete one that holds a name and an email
C7_Witness ==
    /\ strategy = "read_contacts_sheet4"
    /\ values = <<ACME, NAME1, PHONE, EMAIL_UP, SHORT, PHONE, HYPER, NAME1, EMAIL_UP>>
    /\ appended = <<Contact(<<"A", "c", "m", "e">>, NAME1, Lower(EMAIL_UP)),
                    Contact(<<"A", "c", "m", "e">>, SHORT, EMAIL2)>>

====
